---- MODULE Spec2Model ----
(***************************************************************************)
(* A model of src/questions_processing.py (class QuestionsProcessor): the  *)
(* batch scheduler, the single-question pipeline, the comparative          *)
(* coordinator, the answer-detail ledger and the page-reference validator. *)
(*                                                                         *)
(* Two specifications share the module:                                    *)
(*   Spec   the run of process_questions_list over a question list         *)
(*   SpecV  _validate_page_references / the reference step of              *)
(*          get_answer_for_company applied to bounded inputs               *)
(*   SpecX  _post_process_submission_answers applied to bounded inputs     *)
(***************************************************************************)
EXTENDS Integers, Sequences, FiniteSets, TLC

VARIABLES
    \* ---- process_questions_list and its workers (Spec) ----
    questions,            \* questions_with_index: 0..N-1 -> [text, schema, ents]
    parallel_requests,    \* self.parallel_requests
    new_challenge_pipeline, \* self.new_challenge_pipeline
    output_path,          \* TRUE when an output path is configured
    answer_details,       \* self.answer_details: 0..N-1 -> None or a record
    response_data,        \* self.response_data, shared by every worker
    processed_questions,  \* the accumulating result list
    main,                 \* position of process_questions_list
    batch,                \* sequence of the question indices of the running batch
    w,                    \* per question: the state of _process_single_question
    calls,                \* per question: the collaborator calls started so far
    saved,                \* what the last _save_progress call wrote
    deviations,           \* collaborator replies so far that were not a plain answer
    \* ---- a function called on its own (SpecV, SpecX) ----
    vin,                  \* the arguments
    vout                  \* the value returned

pvars == <<questions, parallel_requests, new_challenge_pipeline, output_path,
           answer_details, response_data, processed_questions, main, batch,
           w, calls, saved, deviations>>
vvars == <<vin, vout>>
vars == <<pvars, vvars>>

\* Python's None; every optional value of the model is a record
None == [none |-> TRUE]

\* an optional list argument: None, or a list
NoList == [is_none |-> TRUE, items |-> <<>>]
List(items) == [is_none |-> FALSE, items |-> items]

(***************************************************************************)
(* Bounds of the model.                                                    *)
(***************************************************************************)
MaxQuestions == 3      \* longest question list
MaxParallel == 2       \* largest parallel_requests
MaxComparative == 1    \* most comparative questions of a question list
MaxDeviations == 1     \* most collaborator replies of a run that are not a plain answer
MaxPage == 3           \* page numbers are 1..MaxPage
MaxClaimed == 2        \* longest claimed_pages list
MaxRetrieved == 3      \* longest retrieval result list
MaxMinPages == 2       \* largest min_pages argument
MaxMaxPages == 3       \* largest max_pages argument
MaxTail == 2           \* longest text after the prefix of a handle
MaxLedger == 2         \* longest ledger given to the export
MaxRefs == 2           \* longest reference list of an exported result

\* Defaults of _validate_page_references(min_pages=2, max_pages=8)
DefaultMinPages == 2
DefaultMaxPages == 8

(***************************************************************************)
(* Sequence helpers.                                                       *)
(***************************************************************************)
Range(s) == {s[k] : k \in 1..Len(s)}

SeqsUpTo(S, n) == UNION {[1..k -> S] : k \in 0..n}

Min2(a, b) == IF a <= b THEN a ELSE b

(***************************************************************************)
(* _validate_page_references                                               *)
(***************************************************************************)
\* retrieved_pages = [result['page'] for result in retrieval_results]
RetrievedPages(retrieval_results) ==
    [k \in 1..Len(retrieval_results) |-> retrieval_results[k].page]

\* validated_pages = [page for page in claimed_pages if page in retrieved_pages]
FilterClaimedNoCheck(claimed_pages, retrieved_pages) == claimed_pages

FilterClaimed(claimed_pages, retrieved_pages) ==
    SelectSeq(claimed_pages, LAMBDA page : page \in Range(retrieved_pages))

\* a backfill that forgets the existing_pages test
RECURSIVE BackfillDup(_, _, _, _)
BackfillDup(validated_pages, retrieval_results, k, min_pages) ==
    IF k > Len(retrieval_results) THEN validated_pages
    ELSE LET appended == Append(validated_pages, retrieval_results[k].page)
         IN  IF Len(appended) >= min_pages THEN appended
             ELSE BackfillDup(appended, retrieval_results, k + 1, min_pages)

\* the backfill loop over retrieval_results[k..]: append each page that is not
\* yet in validated_pages, break as soon as min_pages entries are reached
RECURSIVE BackfillFrom(_, _, _, _)
BackfillFrom(validated_pages, retrieval_results, k, min_pages) ==
    IF k > Len(retrieval_results) THEN validated_pages
    ELSE LET page == retrieval_results[k].page
         IN  IF page \notin Range(validated_pages)
             THEN LET appended == Append(validated_pages, page)
                  IN  IF Len(appended) >= min_pages THEN appended
                      ELSE BackfillFrom(appended, retrieval_results, k + 1, min_pages)
             ELSE BackfillFrom(validated_pages, retrieval_results, k + 1, min_pages)

\* if len(validated_pages) < min_pages and retrieval_results: ...
Backfill(validated_pages, retrieval_results, min_pages) ==
    IF Len(validated_pages) < min_pages /\ retrieval_results # <<>>
    THEN BackfillFrom(validated_pages, retrieval_results, 1, min_pages)
    ELSE validated_pages

\* a trim that keeps the last max_pages entries
TrimTail(validated_pages, max_pages) ==
    IF Len(validated_pages) > max_pages
    THEN SubSeq(validated_pages, Len(validated_pages) - max_pages + 1, Len(validated_pages))
    ELSE validated_pages

\* if len(validated_pages) > max_pages: validated_pages = validated_pages[:max_pages]
Trim(validated_pages, max_pages) ==
    IF Len(validated_pages) > max_pages
    THEN SubSeq(validated_pages, 1, max_pages)
    ELSE validated_pages

_validate_page_references(claimed_pages, retrieval_results, min_pages, max_pages) ==
    LET claimed == IF claimed_pages.is_none THEN <<>> ELSE claimed_pages.items
        filtered == FilterClaimed(claimed, RetrievedPages(retrieval_results))
    IN  Trim(Backfill(filtered, retrieval_results, min_pages), max_pages)

(***************************************************************************)
(* _extract_references: one reference per page, with the company's sha1    *)
(* from the subset file ("" when the company is not listed).               *)
(***************************************************************************)
Companies == {"A", "B"}

Sha1(company_name) ==
    CASE company_name = "A" -> "sha_a"
      [] company_name = "B" -> "sha_b"
      [] OTHER -> ""

_extract_references(pages_list, company_name) ==
    [k \in 1..Len(pages_list) |->
        [pdf_sha1 |-> Sha1(company_name), page_index |-> pages_list[k]]]

\* get_answer_for_company, new_challenge_pipeline branch: the references of
\* an answer that claims `pages`, given the passages retrieved for the company
AnswerReferences(pages, retrieval_results, company_name) ==
    _extract_references(
        _validate_page_references(pages, retrieval_results,
                                  DefaultMinPages, DefaultMaxPages),
        company_name)

(***************************************************************************)
(* Detail handles: f"#/answer_details/{question_index}" and its parsing    *)
(* int(ref.split("/")[-1]).                                                *)
(***************************************************************************)
DigitChars == <<"0", "1", "2", "3", "4", "5", "6", "7", "8", "9">>

\* str(n) for n >= 0, as a sequence of digit characters
RECURSIVE ToDigits(_)
ToDigits(n) ==
    IF n < 10 THEN <<DigitChars[n + 1]>>
    ELSE Append(ToDigits(n \div 10), DigitChars[(n % 10) + 1])

DigitValue(ch) == (CHOOSE d \in 1..10 : DigitChars[d] = ch) - 1

\* int(text) for a sequence of digit characters
RECURSIVE FromDigits(_)
FromDigits(text) ==
    IF Len(text) = 0 THEN 0
    ELSE 10 * FromDigits(SubSeq(text, 1, Len(text) - 1)) + DigitValue(text[Len(text)])

\* a handle that encodes the index after question_index
DetailRefOffByOne(question_index) ==
    [prefix |-> "#/answer_details/", tail |-> ToDigits(question_index + 1)]

\* ref_id = f"#/answer_details/{question_index}"
DetailRef(question_index) ==
    [prefix |-> "#/answer_details/", tail |-> ToDigits(question_index)]

\* the index a well-formed handle resolves to
ResolveIndex(handle) == FromDigits(handle.tail)

(***************************************************************************)
(* The inputs of a run and what the collaborators may answer.              *)
(***************************************************************************)
\* the entities extracted from a question: none, one, or two (comparative)
EntityLists == {<<>>, <<"A">>, <<"A", "B">>}

\* questions_with_index for n questions: the text of question i is distinct
\* from every other text and is modelled by i itself; at most MaxComparative
\* of the questions name more than one entity
QuestionLists(n) ==
    {[i \in 0..(n - 1) |-> [text |-> i, kind |-> "boolean", ents |-> e[i]]] :
        e \in {f \in [0..(n - 1) -> EntityLists] :
                  Cardinality({i \in 0..(n - 1) : Len(f[i]) > 1}) <= MaxComparative}}

\* the passages the retrieval collaborator returns for a company, and the
\* pages the answering collaborator claims (page 7 is never retrieved, and
\* the answer about B names page 3 twice)
RetrievedFor(company_name) ==
    IF company_name = "A" THEN <<[page |-> 1], [page |-> 2]>>
    ELSE <<[page |-> 2], [page |-> 3]>>

ClaimedFor(company_name) ==
    IF company_name = "A" THEN List(<<2, 7>>) ELSE List(<<3, 3>>)

\* the answer of a retrieval+answer cycle: a well-formed answer, a
\* well-formed "N/A", an answer carrying an "error" key, an answer without
\* the analysis fields; or the cycle raises (no context, collaborator error)
AnswerOutcomes == {"ok", "na", "error_key", "no_analysis"}
CycleOutcomes == AnswerOutcomes \cup {"raised"}
SubOutcomes == {"ok", "raised"}
\* the synthesis answer takes the path of a single-entity answer from
\* line 280 on; the model lets it be well-formed, or the call raise
SynthOutcomes == {"ok", "raised"}

NullValue == "null"
NotAvailable == "N/A"

FinalAnswer(outcome) ==
    CASE outcome = "ok" -> "42"
      [] outcome = "na" -> NotAvailable
      [] OTHER -> NullValue

N == Cardinality(DOMAIN questions)
Indices == DOMAIN questions

\* self.openai_processor.response_data after an answering call made for
\* question i (about company `who`, or "comparative" for the synthesis): the
\* payload is told apart by the question it belongs to
Payload(i, who) == [question_index |-> i]

Waiting ==
    [pc |-> "waiting", answer |-> None, sub |-> [c \in Companies |-> "none"],
     seen |-> {}, agg |-> <<>>, result |-> None, cause |-> "none"]

Init ==
    /\ \E n \in 0..MaxQuestions : questions \in QuestionLists(n)
    /\ parallel_requests \in 1..MaxParallel
    /\ new_challenge_pipeline \in BOOLEAN
    /\ output_path = TRUE   \* without an output path nothing but the flush differs
    /\ answer_details = <<>>
    /\ response_data = None
    /\ processed_questions = <<>>
    /\ main = [pc |-> "start", i |-> 0, returned |-> None]
    /\ batch = <<>>
    /\ w = [i \in DOMAIN questions |-> Waiting]
    /\ calls = [i \in DOMAIN questions |-> {}]
    /\ saved = None
    /\ deviations = 0
    /\ vin = None
    /\ vout = None

(***************************************************************************)
(* Results, detail records and statistics.                                 *)
(***************************************************************************)
\* f"{type(err).__name__}: {error_message}" for the exceptions of the model;
\* "sub_failed" stands for the exception of a sub-task raised again on line 499
ErrorText(cause) ==
    CASE cause = "no_entity" -> "ValueError: No company name found in the question."
      [] cause = "no_analysis" -> "KeyError: 'step_by_step_analysis'"
      [] cause = "sub_failed" -> "ValueError: sub-question failed"
      [] OTHER -> "Exception: collaborator raised"

\* the two result shapes of _process_single_question / _handle_processing_error
ResultShape(i, value, references, detail_ref) ==
    IF new_challenge_pipeline
    THEN [question_text |-> questions[i].text, kind |-> questions[i].kind,
          value |-> value, references |-> references,
          answer_details |-> [ref |-> detail_ref]]
    ELSE [question |-> questions[i].text, schema |-> questions[i].kind,
          answer |-> value, answer_details |-> [ref |-> detail_ref]]

WithError(result, text) ==
    [f \in DOMAIN result \cup {"error"} |-> IF f = "error" THEN text ELSE result[f]]

\* lines 344-360: the error result
ErrorResult(i, cause) ==
    WithError(ResultShape(i, NullValue, <<>>, DetailRef(i)), ErrorText(cause))

\* lines 331-334: the error detail
ErrorDetail(i) == [error_traceback |-> "traceback", self |-> DetailRef(i)]

\* a handler that writes the detail and lets the exception go on
HandleErrorReraise(wi, i, cause) ==
    [Waiting EXCEPT !.pc = "propagated", !.cause = cause, !.sub = wi.sub]

\* a handler that stores the error detail and runs the question again
HandleErrorRetry(wi, i, cause) ==
    IF cause = "no_entity"
    THEN [Waiting EXCEPT !.pc = "done", !.cause = cause, !.sub = wi.sub,
                         !.result = ErrorResult(i, cause)]
    ELSE [Waiting EXCEPT !.pc = IF Len(questions[i].ents) = 1 THEN "cycle" ELSE "decomp"]

\* _handle_processing_error as seen by the worker: it returns the error result
\* (its locals, other than the states of the sub-tasks, end with the call)
HandleError(wi, i, cause) ==
    [Waiting EXCEPT !.pc = "done", !.cause = cause, !.sub = wi.sub,
                    !.result = ErrorResult(i, cause)]

\* lines 204-210: the detail stored for an answer; response_data is read
\* from self at the time of the write
AnswerDetail(i, answer, data) ==
    [step_by_step_analysis |-> IF answer.outcome = "error_key" THEN NullValue ELSE "analysis",
     reasoning_summary |-> IF answer.outcome = "error_key" THEN NullValue ELSE "summary",
     relevant_pages |-> IF answer.outcome = "error_key" THEN NoList ELSE List(answer.relevant_pages),
     response_data |-> data,
     self |-> DetailRef(i)]

\* lines 280-318: the result returned once the detail is stored
AnswerResult(i, answer) ==
    IF answer.outcome = "error_key"
    THEN WithError(ResultShape(i, NullValue, <<>>, DetailRef(i)), "answer error")
    ELSE ResultShape(i, FinalAnswer(answer.outcome),
                     IF answer.has_references THEN answer.references ELSE <<>>,
                     DetailRef(i))

\* q.get("value") if "value" in q else q.get("answer")
ValueOf(q) == IF "value" \in DOMAIN q THEN q.value ELSE q.answer

\* q.get("references", [])
ReferencesOf(q) == IF "references" \in DOMAIN q THEN q.references ELSE <<>>

HasError(q) == "error" \in DOMAIN q

\* statistics whose total is the length of the whole question list
StatisticsCarried(pq) ==
    LET error_count == Cardinality({k \in 1..Len(pq) : HasError(pq[k])})
        na_count == Cardinality({k \in 1..Len(pq) : ValueOf(pq[k]) = NotAvailable})
    IN  [total_questions |-> N, error_count |-> error_count,
         na_count |-> na_count, success_count |-> N - error_count - na_count]

\* _calculate_statistics, the record it returns
Statistics(pq) ==
    LET total_questions == Len(pq)
        error_count == Cardinality({k \in 1..Len(pq) : HasError(pq[k])})
        na_count == Cardinality({k \in 1..Len(pq) : ValueOf(pq[k]) = NotAvailable})
    IN  [total_questions |-> total_questions, error_count |-> error_count,
         na_count |-> na_count,
         success_count |-> total_questions - error_count - na_count]

\* _calculate_statistics(print_stats=True) divides by total_questions
PrintStatsRaises(pq) == Len(pq) = 0

\* a flush that writes nothing
SaveProgressSkip(pq, details) == saved

\* _save_progress: the debug document, written when an output path is set
SaveProgress(pq, details) ==
    IF output_path
    THEN [questions |-> pq, answer_details |-> details, statistics |-> Statistics(pq)]
    ELSE saved

(***************************************************************************)
(* process_questions_list: the scheduler.                                  *)
(***************************************************************************)
\* lines 234-239: the ledger is preallocated with one empty slot per question
Begin ==
    /\ main.pc = "start"
    /\ answer_details' = [i \in Indices |-> None]
    /\ main' = [main EXCEPT !.pc = "loop"]
    /\ UNCHANGED <<questions, parallel_requests, new_challenge_pipeline, output_path,
                   response_data, processed_questions, batch, w, calls, saved, deviations, vvars>>

\* batch = questions_with_index[i : i + parallel_threads]
BatchOf(i) ==
    [k \in 1..(Min2(i + parallel_requests, N) - i) |-> i + k - 1]

\* a batch whose last result is not taken
BatchResultsShort(b) == [k \in 1..(Len(b) - 1) |-> w[b[k]].result]

\* list(executor.map(...)): the results in the order of the batch
BatchResults(b) == [k \in 1..Len(b) |-> w[b[k]].result]

Company(i) == questions[i].ents[1]

\* a dispatch without the test for an empty entity list
StartQuestionNoCheck(i) ==
    IF Len(questions[i].ents) = 1 THEN [Waiting EXCEPT !.pc = "cycle"]
    ELSE [Waiting EXCEPT !.pc = "decomp"]

\* _process_single_question, lines 268-278, and process_question, lines
\* 184-198: the entities are extracted and the question is dispatched on
\* their number. With no entity the ValueError goes to the handler; with one
\* the retrieval+answer cycle starts; with more the decomposition is asked for
StartQuestion(i) ==
    CASE Len(questions[i].ents) = 0 -> HandleError(Waiting, i, "no_entity")
      [] Len(questions[i].ents) = 1 -> [Waiting EXCEPT !.pc = "cycle"]
      [] OTHER -> [Waiting EXCEPT !.pc = "decomp"]

FirstCalls(i) ==
    CASE Len(questions[i].ents) = 0 -> {}
      [] Len(questions[i].ents) = 1 -> {<<"cycle", Company(i), questions[i].kind>>}
      [] OTHER -> {<<"decompose", "all", "none">>}

\* the questions of b are handed to the workers (the pool has a worker for
\* each, so each pipeline starts at once); what the model remembers of the
\* pipelines of earlier batches, beyond their being done, ends here
Submit(b) ==
    /\ w' = [j \in Indices |->
                IF j \in Range(b) THEN StartQuestion(j)
                ELSE IF w[j].pc = "waiting" THEN w[j]
                ELSE [Waiting EXCEPT !.pc = w[j].pc]]
    /\ calls' = [j \in Indices |-> IF j \in Range(b) THEN FirstCalls(j) ELSE {}]
    /\ answer_details' = [j \in Indices |->
                IF j \in Range(b) /\ Len(questions[j].ents) = 0
                THEN ErrorDetail(j) ELSE answer_details[j]]

\* lines 242-243: the sequential branch calls the pipeline for the next question
StartSequential ==
    /\ main.pc = "loop"
    /\ parallel_requests <= 1
    /\ main.i < N
    /\ batch' = <<main.i>>
    /\ Submit(<<main.i>>)
    /\ main' = [main EXCEPT !.pc = "call"]
    /\ UNCHANGED <<questions, parallel_requests, new_challenge_pipeline, output_path,
                   response_data, processed_questions, saved, deviations, vvars>>

\* lines 244-246: append the result, then flush
CollectSequential ==
    /\ main.pc = "call"
    /\ w[batch[1]].pc \in {"done", "propagated"}
    /\ IF w[batch[1]].pc = "propagated"
       THEN /\ main' = [main EXCEPT !.pc = "raised"]
            /\ UNCHANGED <<processed_questions, saved>>
       ELSE /\ processed_questions' = Append(processed_questions, w[batch[1]].result)
            /\ saved' = SaveProgress(processed_questions', answer_details)
            /\ main' = [main EXCEPT !.pc = "loop", !.i = main.i + 1]
    /\ batch' = <<>>
    /\ UNCHANGED <<questions, parallel_requests, new_challenge_pipeline, output_path,
                   answer_details, response_data, w, calls, deviations, vvars>>

\* lines 249-253: the next batch is handed to a fresh pool of P workers
StartBatch ==
    /\ main.pc = "loop"
    /\ parallel_requests > 1
    /\ main.i < N
    /\ batch' = BatchOf(main.i)
    /\ Submit(BatchOf(main.i))
    /\ main' = [main EXCEPT !.pc = "map"]
    /\ UNCHANGED <<questions, parallel_requests, new_challenge_pipeline, output_path,
                   response_data, processed_questions, saved, deviations, vvars>>

\* lines 253-258: the pool is drained, the results of the batch are appended
\* in batch order, then flushed
CollectBatch ==
    /\ main.pc = "map"
    /\ \A j \in Range(batch) : w[j].pc \in {"done", "propagated"}
    /\ IF \E j \in Range(batch) : w[j].pc = "propagated"
       THEN /\ main' = [main EXCEPT !.pc = "raised"]
            /\ UNCHANGED <<processed_questions, saved>>
       ELSE /\ processed_questions' = processed_questions \o BatchResults(batch)
            /\ saved' = SaveProgress(processed_questions', answer_details)
            /\ main' = [main EXCEPT !.pc = "loop", !.i = main.i + parallel_requests]
    /\ batch' = <<>>
    /\ UNCHANGED <<questions, parallel_requests, new_challenge_pipeline, output_path,
                   answer_details, response_data, w, calls, deviations, vvars>>

\* lines 260-266: the final statistics are printed (a division by the number
\* of results) and the three parts are returned
Finish ==
    /\ main.pc = "loop"
    /\ main.i >= N
    /\ IF PrintStatsRaises(processed_questions)
       THEN main' = [main EXCEPT !.pc = "raised"]
       ELSE main' = [main EXCEPT !.pc = "returned",
                        !.returned = [questions |-> processed_questions,
                                      answer_details |-> answer_details,
                                      statistics |-> Statistics(processed_questions)]]
    /\ UNCHANGED <<questions, parallel_requests, new_challenge_pipeline, output_path,
                   answer_details, response_data, processed_questions, batch, w,
                   calls, saved, deviations, vvars>>

(***************************************************************************)
(* _process_single_question and what it calls, for question i.             *)
(***************************************************************************)
Active(i) == i \in Range(batch) /\ main.pc \in {"call", "map"}

\* a collaborator reply that is not a plain answer uses up one deviation
Deviate(deviating) ==
    /\ deviating => deviations < MaxDeviations
    /\ deviations' = IF deviating THEN deviations + 1 ELSE deviations

\* the except branch of _process_single_question: the handler stores the
\* error detail under the lock and the error result is returned
Fail(i, cause) ==
    /\ answer_details' = [answer_details EXCEPT ![i] = ErrorDetail(i)]
    /\ w' = [w EXCEPT ![i] = HandleError(w[i], i, cause)]

\* get_answer_for_company, lines 156-161: the answer_dict handed back
CycleAnswer(company_name, outcome) ==
    LET pages == _validate_page_references(ClaimedFor(company_name),
                     RetrievedFor(company_name), DefaultMinPages, DefaultMaxPages)
    IN  [outcome |-> outcome,
         relevant_pages |-> IF new_challenge_pipeline THEN pages
                            ELSE ClaimedFor(company_name).items,
         has_references |-> new_challenge_pipeline,
         references |-> IF new_challenge_pipeline
                        THEN _extract_references(pages, company_name) ELSE <<>>]

\* get_answer_for_company for a single-entity question, lines 121-161: the
\* retrieval and the answering call return or raise; on return line 155
\* copies the collaborator's payload into self.response_data
EndCycle(i) ==
    /\ Active(i)
    /\ w[i].pc = "cycle"
    /\ \E outcome \in CycleOutcomes :
          /\ Deviate(outcome # "ok")
          /\ IF outcome = "raised"
             THEN /\ Fail(i, "collaborator")
                  /\ UNCHANGED response_data
             ELSE /\ response_data' = Payload(i, Company(i))
                  /\ w' = [w EXCEPT ![i].pc = "record",
                                    ![i].answer = CycleAnswer(Company(i), outcome)]
                  /\ UNCHANGED answer_details
    /\ UNCHANGED <<questions, parallel_requests, new_challenge_pipeline, output_path,
                   processed_questions, main, batch, calls, saved, vvars>>

\* lines 280-318 with _create_answer_detail_ref, lines 200-211: the detail
\* is stored with whatever self.response_data holds now; an answer without
\* the analysis fields raises KeyError there
Record(i) ==
    /\ Active(i)
    /\ w[i].pc = "record"
    /\ IF w[i].answer.outcome = "no_analysis"
       THEN Fail(i, "no_analysis")
       ELSE /\ answer_details' = [answer_details EXCEPT
                                     ![i] = AnswerDetail(i, w[i].answer, response_data)]
            /\ w' = [w EXCEPT ![i] = [Waiting EXCEPT !.pc = "done", !.sub = w[i].sub,
                                              !.result = AnswerResult(i, w[i].answer)]]
    /\ UNCHANGED <<questions, parallel_requests, new_challenge_pipeline, output_path,
                   response_data, processed_questions, main, batch, calls, saved, deviations, vvars>>

(***************************************************************************)
(* process_comparative_question for question i.                            *)
(***************************************************************************)
Entities(i) == Range(questions[i].ents)

\* a loop body that logs the failure of a task and goes on
AfterFutureSwallow(wi, c) ==
    IF wi.sub[c] = "ok"
    THEN [wi EXCEPT !.seen = @ \cup {c},
                    !.agg = @ \o CycleAnswer(c, "ok").references]
    ELSE [wi EXCEPT !.seen = @ \cup {c}]

\* lines 489-499, one turn of the as_completed loop for the future of c:
\* its references are appended, or its exception is raised again
AfterFuture(wi, c) ==
    IF wi.sub[c] = "ok"
    THEN [wi EXCEPT !.seen = @ \cup {c},
                    !.agg = @ \o CycleAnswer(c, "ok").references]
    ELSE [wi EXCEPT !.pc = "drain"]

\* the loop takes the finished futures of `done` one after another, as long
\* as it has not raised
RECURSIVE AfterFutures(_, _)
AfterFutures(wi, done) ==
    IF done = {} \/ wi.pc # "gather" THEN wi
    ELSE LET c == CHOOSE x \in done : TRUE
         IN  AfterFutures(AfterFuture(wi, c), done \ {c})

\* a merge that keeps every reference
DedupKeepAll(refs, acc) == acc \o refs

\* lines 502-506: one reference per (pdf_sha1, page_index), at the position
\* of the first occurrence, holding the last occurrence
RECURSIVE DedupInto(_, _)
DedupInto(refs, acc) ==
    IF refs = <<>> THEN acc
    ELSE LET r == Head(refs)
             hit == {k \in 1..Len(acc) : /\ acc[k].pdf_sha1 = r.pdf_sha1
                                         /\ acc[k].page_index = r.page_index}
         IN  IF hit = {} THEN DedupInto(Tail(refs), Append(acc, r))
             ELSE DedupInto(Tail(refs), [acc EXCEPT ![CHOOSE k \in hit : TRUE] = r])

DedupReferences(refs) == DedupInto(refs, <<>>)

\* the as_completed loop has seen every future without raising: the
\* references are deduplicated and the synthesis call (lines 509-514) starts
Gathered(i, nw) ==
    IF nw.pc = "gather" /\ nw.seen = Entities(i)
    THEN /\ w' = [w EXCEPT ![i] = [nw EXCEPT !.pc = "synth"]]
         /\ calls' = [calls EXCEPT ![i] = @ \cup {<<"answer", "all", "comparative">>}]
    ELSE /\ w' = [w EXCEPT ![i] = nw]
         /\ UNCHANGED calls

\* lines 461-487: the decomposition returns (or raises); one task per company
\* is submitted to a pool of its own. A task whose company has no
\* sub-question raises at once (line 474) and the as_completed loop raises
\* it again; the other tasks start their retrieval+answer cycle
EndDecomp(i) ==
    /\ Active(i)
    /\ w[i].pc = "decomp"
    /\ \E d \in [raised : BOOLEAN, have : SUBSET Entities(i)] :
          /\ d.raised => d.have = {}
          /\ Deviate(d.raised \/ d.have # Entities(i))
          /\ IF d.raised
             THEN /\ Fail(i, "collaborator")
                  /\ UNCHANGED calls
             ELSE /\ w' = [w EXCEPT ![i] = AfterFutures(
                              [w[i] EXCEPT !.pc = "gather",
                                           !.sub = [c \in Companies |->
                                               IF c \notin Entities(i) THEN "none"
                                               ELSE IF c \in d.have THEN "running"
                                               ELSE "skipped"]],
                              Entities(i) \ d.have)]
                  /\ calls' = [calls EXCEPT ![i] =
                                  @ \cup {<<"cycle", c, "number">> : c \in d.have}]
                  /\ UNCHANGED answer_details
    /\ UNCHANGED <<questions, parallel_requests, new_challenge_pipeline, output_path,
                   response_data, processed_questions, main, batch, saved, vvars>>

\* process_company_question, lines 470-481, and the loop turn that takes its
\* future: the cycle of company c returns (line 155 then overwrites
\* self.response_data) or raises
EndSub(i, c) ==
    /\ Active(i)
    /\ w[i].sub[c] = "running"
    /\ \E outcome \in SubOutcomes :
          /\ Deviate(outcome # "ok")
          /\ response_data' = IF outcome = "ok" THEN Payload(i, c) ELSE response_data
          /\ Gathered(i, AfterFutures([w[i] EXCEPT !.sub[c] = outcome], {c}))
    /\ UNCHANGED <<questions, parallel_requests, new_challenge_pipeline, output_path,
                   answer_details, processed_questions, main, batch, saved, vvars>>

\* an exit of the with block that does not wait
PoolDrainedNoWait(wi) == TRUE

\* leaving the with block of line 483 waits for every task of the pool
PoolDrained(wi) == \A c \in Companies : wi.sub[c] # "running"

\* the exception raised on line 499 leaves the with block once the pool is
\* drained and reaches the except branch of _process_single_question
Drained(i) ==
    /\ Active(i)
    /\ w[i].pc = "drain"
    /\ PoolDrained(w[i])
    /\ Fail(i, "sub_failed")
    /\ UNCHANGED <<questions, parallel_requests, new_challenge_pipeline, output_path,
                   response_data, processed_questions, main, batch, calls, saved, deviations, vvars>>

\* lines 509-518: the synthesis call returns or raises; line 515 copies its
\* payload into self.response_data, line 517 attaches the references
EndSynth(i) ==
    /\ Active(i)
    /\ w[i].pc = "synth"
    /\ \E outcome \in SynthOutcomes :
          /\ Deviate(outcome # "ok")
          /\ IF outcome = "raised"
             THEN /\ Fail(i, "collaborator")
                  /\ UNCHANGED response_data
             ELSE /\ response_data' = Payload(i, "comparative")
                  /\ w' = [w EXCEPT ![i].pc = "record",
                                    ![i].answer = [outcome |-> outcome,
                                                   relevant_pages |-> <<>>,
                                                   has_references |-> TRUE,
                                                   references |-> DedupReferences(w[i].agg)]]
                  /\ UNCHANGED answer_details
    /\ UNCHANGED <<questions, parallel_requests, new_challenge_pipeline, output_path,
                   processed_questions, main, batch, calls, saved, vvars>>

Next ==
    \/ Begin
    \/ StartSequential
    \/ CollectSequential
    \/ StartBatch
    \/ CollectBatch
    \/ Finish
    \/ \E i \in Indices : EndCycle(i)
    \/ \E i \in Indices : Record(i)
    \/ \E i \in Indices : EndDecomp(i)
    \/ \E i \in Indices, c \in Companies : EndSub(i, c)
    \/ \E i \in Indices : Drained(i)
    \/ \E i \in Indices : EndSynth(i)

Spec == Init /\ [][Next]_vars

(***************************************************************************)
(* Properties of a run (checked under Spec).                               *)
(***************************************************************************)
Returned == main.pc = "returned"
Ended == main.pc \in {"returned", "raised"}

\* q.get("question_text") or q.get("question")
TextOf(q) == IF "question_text" \in DOMAIN q THEN q.question_text ELSE q.question

Max2(a, b) == IF a >= b THEN a ELSE b

\* question i is inside _process_single_question
Running(i) == Active(i) /\ w[i].pc \notin {"waiting", "done", "propagated"}

\* the collaborator calls of question i that have not returned yet: its own
\* cycle, decomposition or synthesis call, and the cycles of its sub-tasks
OutstandingOf(i) ==
    (IF w[i].pc \in {"cycle", "decomp", "synth"} THEN 1 ELSE 0)
        + Cardinality({c \in Companies : w[i].sub[c] = "running"})

Outstanding ==
    Cardinality({i \in Indices : w[i].pc \in {"cycle", "decomp", "synth"}})
        + Cardinality({p \in Indices \X Companies : w[p[1]].sub[p[2]] = "running"})

\* some step of the pipeline of question j can be taken
CanStep(j) ==
    CASE w[j].pc = "cycle" -> ENABLED EndCycle(j)
      [] w[j].pc = "record" -> ENABLED Record(j)
      [] w[j].pc = "decomp" -> ENABLED EndDecomp(j)
      [] w[j].pc = "synth" -> ENABLED EndSynth(j)
      [] OTHER -> \/ ENABLED Drained(j)
                  \/ \E c \in Companies : ENABLED EndSub(j, c)

\* C1: for every N >= 0 and P >= 1 process_questions_list returns, and the
\* 'questions' list it returns has length N with the result of the k-th
\* input question at position k.
C1_OrderedResults ==
    Ended =>
        /\ Returned
        /\ Len(main.returned.questions) = N
        /\ \A k \in 1..N :
              /\ TextOf(main.returned.questions[k]) = questions[k - 1].text
              /\ ResolveIndex(main.returned.questions[k].answer_details.ref) = k - 1

\* C2: once process_questions_list has returned, the ledger has exactly N
\* entries, none of them null, and for every index i the self handle of
\* entry i and the $ref handle of the i-th result both encode i.
C2_LedgerComplete ==
    Returned =>
        /\ DOMAIN main.returned.answer_details = 0..(N - 1)
        /\ \A i \in Indices :
              /\ main.returned.answer_details[i] # None
              /\ main.returned.answer_details[i].self.prefix = "#/answer_details/"
              /\ ResolveIndex(main.returned.answer_details[i].self) = i
              /\ main.returned.questions[i + 1].answer_details.ref.prefix = "#/answer_details/"
              /\ ResolveIndex(main.returned.questions[i + 1].answer_details.ref) = i

\* a returned run of two batches with an error detail and an answer detail
C2_Witness ==
    /\ Returned
    /\ N = 3
    /\ parallel_requests = 2
    /\ \E i, j \in Indices :
          /\ "error_traceback" \in DOMAIN answer_details[i]
          /\ "response_data" \in DOMAIN answer_details[j]

\* C3: an exception raised for question i (entity extraction, retrieval,
\* answering, validation, detail recording) does not leave
\* _process_single_question: the call returns an error result for i and the
\* error detail of i is stored; no other pipeline is stopped by it, the run
\* is not aborted, and at the return every question has its result and its
\* detail record.
C3_FailureIsolated ==
    /\ \A i \in Indices : w[i].pc # "propagated"
    /\ \A i \in Indices :
          (w[i].pc = "done" /\ w[i].cause # "none") =>
              /\ HasError(w[i].result)
              /\ TextOf(w[i].result) = questions[i].text
              /\ answer_details[i] = ErrorDetail(i)
    /\ (\E i \in Range(batch) : w[i].pc = "done" /\ w[i].cause # "none") =>
          \A j \in Range(batch) : Running(j) => CanStep(j)
    /\ main.pc = "raised" => N = 0
    /\ Returned =>
          /\ Len(processed_questions) = N
          /\ \A j \in Indices :
                /\ answer_details[j] # None
                /\ TextOf(processed_questions[j + 1]) = questions[j].text

\* a returned run of two batches: a collaborator raised for question 0, and
\* its sibling and the question of the later batch were answered
C3_Witness ==
    /\ Returned
    /\ N = 3
    /\ parallel_requests = 2
    /\ HasError(processed_questions[1])
    /\ processed_questions[1].error = ErrorText("collaborator")
    /\ ~HasError(processed_questions[2])
    /\ ~HasError(processed_questions[3])
    /\ "response_data" \in DOMAIN answer_details[1]
    /\ "response_data" \in DOMAIN answer_details[2]

\* C4: the response_data stored in the Answer Detail of question i is the
\* payload of an answering call made for question i, never that of another
\* question.
C4_OwnPayload ==
    \A i \in DOMAIN answer_details :
        (answer_details[i] # None /\ "response_data" \in DOMAIN answer_details[i]) =>
            answer_details[i].response_data = Payload(i, "any")

\* C5 as claimed: with P > 1 the external calls outstanding at the same time
\* never exceed P.
C5_AtMostP ==
    parallel_requests > 1 => Outstanding <= parallel_requests

\* C5 as amended: with P > 1 at most P pipelines run at the same time and a
\* pipeline has at most max(1, number of its entities) calls outstanding
\* (none once it has returned).
C5_BoundedByEntities ==
    parallel_requests > 1 =>
        /\ Cardinality({i \in Indices : Running(i)}) <= parallel_requests
        /\ \A i \in Indices :
              OutstandingOf(i) <=
                  (IF Running(i) THEN Max2(1, Len(questions[i].ents)) ELSE 0)

\* more calls outstanding than P, all of them of running pipelines
C5_Witness ==
    /\ parallel_requests > 1
    /\ Outstanding > parallel_requests
    /\ Cardinality({i \in Indices : Running(i)}) = parallel_requests

\* C10: when the cycle of B raises in a comparative question over [A, B],
\* the question ends as one error result with no references; the synthesis
\* call is not made and nothing of A's sub-answer reaches the results.
C10_NoPartialComparative ==
    \A i \in Indices :
        (/\ questions[i].ents = <<"A", "B">>
         /\ w[i].sub["B"] = "raised") =>
            /\ <<"answer", "all", "comparative">> \notin calls[i]
            /\ w[i].pc \in {"drain", "done"}
            /\ w[i].pc = "done" =>
                  /\ HasError(w[i].result)
                  /\ ValueOf(w[i].result) = NullValue
                  /\ ReferencesOf(w[i].result) = <<>>
                  /\ Len(processed_questions) > i =>
                        /\ processed_questions[i + 1] = w[i].result
                        /\ Cardinality({k \in 1..Len(processed_questions) :
                              TextOf(processed_questions[k]) = questions[i].text}) = 1

\* A answered, B raised, and the result of the question has been collected
C10_Witness ==
    \E i \in Indices :
        /\ questions[i].ents = <<"A", "B">>
        /\ w[i].sub["A"] = "ok"
        /\ w[i].sub["B"] = "raised"
        /\ w[i].pc = "done"
        /\ Len(processed_questions) > i
        /\ new_challenge_pipeline

\* the detail has the error shape: a traceback and a handle, nothing else
ErrorShape(detail) == DOMAIN detail = {"error_traceback", "self"}

\* C11: a processed result carries an 'error' field if and only if the
\* Answer Detail at its index has the error shape, for every way a question
\* can fail, an answer that holds an 'error' key included.
C11_ErrorIffErrorDetail ==
    \A k \in 1..Len(processed_questions) :
        HasError(processed_questions[k]) <=> ErrorShape(answer_details[k - 1])

\* the results that the last flush wrote
PersistedCount == IF saved = None THEN 0 ELSE Len(saved.questions)

Started(j) == w[j].pc # "waiting"

BatchNumber(j) == j \div parallel_requests

\* C12: with an output path and P > 1, no pipeline of a batch starts before
\* every pipeline of the batches before it has finished and the flush has
\* written the results of all of them; each flush holds min((k+1)*P, N)
\* results, and the started questions that are not persisted belong to one
\* batch.
C12_BatchesSerialized ==
    (parallel_requests > 1 /\ output_path) =>
        /\ \A k \in Range(batch) :
              /\ PersistedCount >= BatchNumber(k) * parallel_requests
              /\ \A j \in 0..(BatchNumber(k) * parallel_requests - 1) : w[j].pc = "done"
        /\ \A k \in Indices \ Range(batch) : Started(k) => w[k].pc = "done"
        /\ LET unpersisted == {j \in Indices : Started(j) /\ j >= PersistedCount}
           IN  /\ Cardinality(unpersisted) <= parallel_requests
               /\ \A j, k \in unpersisted : BatchNumber(j) = BatchNumber(k)
        /\ saved # None =>
              /\ PersistedCount \in {Min2(m * parallel_requests, N) : m \in 1..N}
              /\ saved.questions = SubSeq(processed_questions, 1, PersistedCount)
              /\ PersistedCount = Len(processed_questions)

\* a pipeline of the second batch runs after the flush of the first
C12_Witness ==
    /\ parallel_requests > 1
    /\ main.pc = "map"
    /\ main.i >= parallel_requests
    /\ PersistedCount = parallel_requests
    /\ \E j \in Range(batch) : w[j].pc \in {"cycle", "decomp"}

SumsToTotal(st) == st.success_count + st.error_count + st.na_count = st.total_questions

\* C13: every statistics record, at each flush and at the return, satisfies
\* success_count + error_count + na_count = total_questions, and
\* total_questions is the length of the result list given at that call.
C13_StatisticsAddUp ==
    /\ saved # None =>
          /\ SumsToTotal(saved.statistics)
          /\ saved.statistics.total_questions = Len(saved.questions)
    /\ Returned =>
          /\ SumsToTotal(main.returned.statistics)
          /\ main.returned.statistics.total_questions = Len(main.returned.questions)

\* a flush in the middle of the run that counted an answer and an N/A
C13_Witness ==
    /\ saved # None
    /\ Len(saved.questions) < N
    /\ saved.statistics.na_count = 1
    /\ saved.statistics.success_count >= 1

\* the pipeline of question i has started and its calls are still on record
Remembered(i) == Started(i) /\ (w[i].pc # "done" \/ w[i].result # None)

CycleCalls(i) == {c \in calls[i] : c[1] = "cycle"}

\* C17: process_question dispatches on the number of extracted entities:
\* none, the question fails and no collaborator is called; one, a single
\* retrieval+answer cycle for that entity with the question's schema and no
\* decomposition; two or more, the comparative coordinator (which starts
\* with the decomposition).
C17_Dispatch ==
    \A i \in Indices : Remembered(i) =>
        CASE Len(questions[i].ents) = 0 ->
                /\ calls[i] = {}
                /\ w[i].pc = "done"
                /\ HasError(w[i].result)
                /\ w[i].result.error = ErrorText("no_entity")
          [] Len(questions[i].ents) = 1 ->
                /\ calls[i] = {<<"cycle", questions[i].ents[1], questions[i].kind>>}
                /\ w[i].pc \in {"cycle", "record", "done"}
          [] OTHER ->
                /\ <<"decompose", "all", "none">> \in calls[i]
                /\ \A c \in CycleCalls(i) : c[2] \in Entities(i) /\ c[3] = "number"

\* a question without entity has failed next to a comparative question
\* whose sub-questions are being answered
C17_Witness ==
    \E i, j \in Indices :
        /\ Remembered(i) /\ Remembered(j)
        /\ questions[i].ents = <<>>
        /\ Len(questions[j].ents) = 2
        /\ Cardinality(CycleCalls(j)) = 2

\* C18: every question is processed once and its ledger slot is written
\* once: a slot that holds a record never changes again, a pipeline that has
\* started never starts again (a failed question is not retried), and at the
\* return no slot is empty.
C18_WriteOnce ==
    [][/\ \A i \in DOMAIN answer_details :
             answer_details[i] # None => answer_details'[i] = answer_details[i]
       /\ \A i \in Indices :
             /\ Started(i) => w'[i].pc # "waiting"
             /\ w[i].pc = "done" => w'[i].pc = "done"
             /\ (w[i].pc = "waiting" /\ w'[i].pc # "waiting") =>
                   answer_details[i] = None
       /\ Returned => \A i \in Indices : answer_details[i] # None /\ w[i].pc = "done"
      ]_vars

\* the write of the success path failed and the error handler wrote the slot
C18_Witness ==
    \E i \in Indices :
        /\ w[i].pc = "done"
        /\ w[i].cause = "no_analysis"
        /\ answer_details[i] = ErrorDetail(i)

\* C19: when the decomposition lacks the sub-question of an entity, the
\* comparative question fails before any retrieval+answer cycle: it ends as
\* an error result and no cycle is started for any of its entities.
C19_NoCycleAfterIncompleteDecomposition ==
    \A i \in Indices :
        (\E c \in Entities(i) : w[i].sub[c] = "skipped") =>
            /\ CycleCalls(i) = {}
            /\ <<"answer", "all", "comparative">> \notin calls[i]
            /\ w[i].pc = "done" => HasError(w[i].result)

PairOf(r) == <<r.pdf_sha1, r.page_index>>

PairsIn(refs) == {PairOf(refs[k]) : k \in 1..Len(refs)}

FirstWith(refs, pair) ==
    refs[CHOOSE k \in 1..Len(refs) :
            /\ PairOf(refs[k]) = pair
            /\ \A l \in 1..(k - 1) : PairOf(refs[l]) # pair]

\* the synthesis of comparative question i has returned
Synthesized(i) == Len(questions[i].ents) >= 2 /\ w[i].pc = "record"

\* C20: the references attached to a successful comparative answer hold no
\* (pdf_sha1, page_index) pair twice and exactly the pairs of the entities'
\* reference lists, in whatever order the tasks completed; the reference
\* kept for a pair equals its first occurrence.
C20_DedupReferences ==
    \A i \in Indices : Synthesized(i) =>
        LET refs == w[i].answer.references
            gathered == w[i].agg
        IN  /\ \A k, l \in 1..Len(refs) : PairOf(refs[k]) = PairOf(refs[l]) => k = l
            /\ PairsIn(refs) =
                  UNION {PairsIn(CycleAnswer(c, "ok").references) : c \in Entities(i)}
            /\ PairsIn(refs) = PairsIn(gathered)
            /\ \A k \in 1..Len(refs) : refs[k] = FirstWith(gathered, PairOf(refs[k]))
            /\ new_challenge_pipeline =>
                  ReferencesOf(AnswerResult(i, w[i].answer)) = refs

\* B's task completed first and a repeated reference was merged
C20_Witness ==
    \E i \in Indices :
        /\ Synthesized(i)
        /\ new_challenge_pipeline
        /\ Len(w[i].agg) > Len(w[i].answer.references)
        /\ w[i].agg[1].pdf_sha1 = Sha1("B")
        /\ \E k \in 1..Len(w[i].agg) : w[i].agg[k].pdf_sha1 = Sha1("A")

\* the specification of a run in which every collaborator call returns or
\* raises and every thread that can take a step takes it
LiveSpec ==
    /\ Spec
    /\ WF_vars(Begin \/ StartSequential \/ CollectSequential
                 \/ StartBatch \/ CollectBatch \/ Finish)
    /\ \A i \in 0..(MaxQuestions - 1) :
          /\ WF_vars(EndCycle(i) \/ EndDecomp(i) \/ EndSynth(i))
          /\ WF_vars(Record(i) \/ Drained(i))
          /\ \A c \in Companies : WF_vars(EndSub(i, c))

\* C21: if every retrieval, answering and decomposition call returns or
\* raises, process_questions_list eventually returns with all N results,
\* for every N and P.
C21_EventuallyReturns ==
    <>(Returned /\ Len(main.returned.questions) = N)

\* a run over at least one question does return with all its results
NonEmptyRunReturns ==
    (N >= 1) => <>(Returned /\ Len(main.returned.questions) = N)

\* C23: at every flush the persisted ledger has length N, slot i holds a
\* record exactly when i is smaller than the number of results of that
\* flush, and every later slot is null.
C23_LedgerMatchesResults ==
    saved # None =>
        /\ DOMAIN saved.answer_details = 0..(N - 1)
        /\ Len(saved.questions) <= N
        /\ \A i \in Indices :
              saved.answer_details[i] # None <=> i < Len(saved.questions)

\* a flush in the middle of a run of batches: filled slots and empty ones
C23_Witness ==
    /\ saved # None
    /\ parallel_requests > 1
    /\ Len(saved.questions) = parallel_requests
    /\ Len(saved.questions) < N
    /\ saved.answer_details[0] # None
    /\ saved.answer_details[N - 1] = None

(***************************************************************************)
(* SpecV: the validator applied to every bounded input, and to the two     *)
(* inputs the specification names.                                         *)
(***************************************************************************)
Pages == 1..MaxPage

RetrievalLists(n) == SeqsUpTo([page : Pages], n)

\* claimed=[3,3,9], retrieved pages 2,3,4,5 with the default limits
RepeatedClaimCase ==
    [claimed_pages |-> List(<<3, 3, 9>>),
     retrieval_results |-> <<[page |-> 2], [page |-> 3], [page |-> 4], [page |-> 5]>>,
     min_pages |-> DefaultMinPages, max_pages |-> DefaultMaxPages, company_name |-> "A"]

\* 10 valid claimed pages with max_pages=8
TenClaimedCase ==
    [claimed_pages |-> List([k \in 1..10 |-> 11 - k]),
     retrieval_results |-> [k \in 1..10 |-> [page |-> k]],
     min_pages |-> DefaultMinPages, max_pages |-> DefaultMaxPages, company_name |-> "B"]

ValidatorInputs ==
    [claimed_pages : {NoList} \cup {List(l) : l \in SeqsUpTo(Pages, MaxClaimed)},
     retrieval_results : RetrievalLists(MaxRetrieved),
     min_pages : 0..MaxMinPages,
     max_pages : 0..MaxMaxPages,
     company_name : {"A"}]
    \cup {RepeatedClaimCase, TenClaimedCase}

\* the pipeline's variables before process_questions_list is called
PipelineIdle ==
    /\ questions = <<>>
    /\ parallel_requests = 1
    /\ new_challenge_pipeline = FALSE
    /\ output_path = FALSE
    /\ answer_details = <<>>
    /\ response_data = None
    /\ processed_questions = <<>>
    /\ main = [pc |-> "idle", i |-> 0, returned |-> None]
    /\ batch = <<>>
    /\ w = <<>>
    /\ calls = <<>>
    /\ saved = None
    /\ deviations = 0

InitV ==
    /\ PipelineIdle
    /\ vin \in ValidatorInputs
    /\ vout = None

\* a call of _validate_page_references with the arguments of vin
ValidateCall ==
    /\ vout = None
    /\ vout' = [kind |-> "pages",
                pages |-> _validate_page_references(vin.claimed_pages,
                              vin.retrieval_results, vin.min_pages, vin.max_pages)]
    /\ UNCHANGED <<vin, pvars>>

\* lines 156-160 of get_answer_for_company: validate with the default limits,
\* then build the references
ReferenceStep ==
    /\ vout = None
    /\ vout' = [kind |-> "references",
                references |-> AnswerReferences(vin.claimed_pages,
                                   vin.retrieval_results, vin.company_name)]
    /\ UNCHANGED <<vin, pvars>>

NextV == ValidateCall \/ ReferenceStep

SpecV == InitV /\ [][NextV]_vars

(***************************************************************************)
(* Properties of the validator (checked under SpecV).                      *)
(***************************************************************************)
Validated == vout # None /\ vout.kind = "pages"
Referenced == vout # None /\ vout.kind = "references"

VClaimed == IF vin.claimed_pages.is_none THEN <<>> ELSE vin.claimed_pages.items
VRetrieved == [k \in 1..Len(vin.retrieval_results) |-> vin.retrieval_results[k].page]
VRetrievedSet == {vin.retrieval_results[k].page : k \in 1..Len(vin.retrieval_results)}

\* the claimed pages that were retrieved, in claimed order
Surviving == SelectSeq(VClaimed, LAMBDA p : p \in VRetrievedSet)

\* positions of the retrieval list holding the first occurrence of a page
\* that did not survive from the claimed list
FreshIdx == {k \in 1..Len(VRetrieved) :
                /\ VRetrieved[k] \notin Range(Surviving)
                /\ \A j \in 1..(k - 1) : VRetrieved[j] # VRetrieved[k]}

NthFresh(m) == CHOOSE k \in FreshIdx : Cardinality({j \in FreshIdx : j <= k}) = m

\* the surviving claimed pages, then as many fresh retrieved pages, in
\* retrieval order, as it takes to reach min_pages
ExpectedBackfilled ==
    LET n == IF Len(Surviving) < vin.min_pages
             THEN Min2(vin.min_pages - Len(Surviving), Cardinality(FreshIdx))
             ELSE 0
    IN  Surviving \o [m \in 1..n |-> VRetrieved[NthFresh(m)]]

Count(s, x) == Cardinality({k \in 1..Len(s) : s[k] = x})

\* C6: every page _validate_page_references returns is the page of some
\* retrieved passage (claimed None and never-retrieved claimed pages
\* included), and every reference built from it in get_answer_for_company
\* carries such a page and the sha1 of the company asked about.
C6_OnlyRetrievedPages ==
    /\ Validated => \A k \in 1..Len(vout.pages) : vout.pages[k] \in VRetrievedSet
    /\ Referenced => \A k \in 1..Len(vout.references) :
                        /\ vout.references[k].page_index \in VRetrievedSet
                        /\ vout.references[k].pdf_sha1 = Sha1(vin.company_name)

\* a claimed page that was never retrieved, and a non-empty output
C6_Witness ==
    /\ Validated
    /\ \E k \in 1..Len(VClaimed) : VClaimed[k] \notin VRetrievedSet
    /\ Len(vout.pages) > 0

\* C7: _validate_page_references never returns the same page twice; for
\* claimed=[3,3,9], retrieved 2,3,4,5, min_pages=2 the output excludes 9,
\* holds page 3 exactly once and has at least 2 entries.
C7_NoPageTwice ==
    Validated =>
        /\ \A j, k \in 1..Len(vout.pages) : j # k => vout.pages[j] # vout.pages[k]
        /\ vin = RepeatedClaimCase =>
              /\ 9 \notin Range(vout.pages)
              /\ Count(vout.pages, 3) = 1
              /\ Len(vout.pages) >= 2

\* C8: for 0 <= min_pages <= max_pages, when fewer than min_pages claimed
\* pages survive the output is the survivors followed by the retrieved pages
\* not yet present, in retrieval order, up to min_pages entries or until the
\* retrieved pages run out; its length is at least
\* min(min_pages, distinct retrieved pages) and at most max_pages.
C8_BackfillOrder ==
    (Validated /\ vin.min_pages <= vin.max_pages) =>
        /\ Len(Surviving) < vin.min_pages => vout.pages = ExpectedBackfilled
        /\ Len(vout.pages) >= Min2(vin.min_pages, Cardinality(VRetrievedSet))
        /\ Len(vout.pages) <= vin.max_pages

\* a backfill that skipped the first retrieved page, already present, and
\* appended a later one
C8_Witness ==
    /\ Validated
    /\ vin.min_pages <= vin.max_pages
    /\ 0 < Len(Surviving)
    /\ Len(Surviving) < Len(vout.pages)
    /\ VRetrieved[1] \in Range(Surviving)

\* C9: when more than max_pages pages remain after filtering and
\* backfilling, the output is exactly the first max_pages of them in
\* unchanged order; 10 valid claimed pages with max_pages=8 give the
\* first 8 claimed pages.
C9_TrimPrefix ==
    Validated =>
        /\ Len(ExpectedBackfilled) > vin.max_pages =>
              /\ Len(vout.pages) = vin.max_pages
              /\ vout.pages = SubSeq(ExpectedBackfilled, 1, vin.max_pages)
        /\ vin = TenClaimedCase =>
              /\ Len(vout.pages) = 8
              /\ vout.pages = SubSeq(VClaimed, 1, 8)

\* the 10-page case has been validated
C9_Witness ==
    /\ Validated
    /\ vin = TenClaimedCase
    /\ Len(Surviving) = 10

(***************************************************************************)
(* _post_process_submission_answers: the submission export.                *)
(***************************************************************************)
\* a handle is the text prefix \o tail; no character of a tail is "#"
DetailPrefix == "#/answer_details/"

EmptyHandle == [prefix |-> "", tail |-> <<>>]

\* q.get("answer_details", {}).get("$ref", "")
HandleOf(q) ==
    IF "answer_details" \in DOMAIN q /\ "ref" \in DOMAIN q.answer_details
    THEN q.answer_details.ref ELSE EmptyHandle

\* answer_details_ref and answer_details_ref.startswith("#/answer_details/")
HasDetailPrefix(handle) == handle.prefix = DetailPrefix

\* answer_details_ref.split("/")[-1] of a handle with the prefix: what
\* follows the last "/"
LastSegment(tail) ==
    LET slashes == {k \in 1..Len(tail) : tail[k] = "/"}
        last == IF slashes = {} THEN 0 ELSE CHOOSE k \in slashes : \A l \in slashes : l <= k
    IN  SubSeq(tail, last + 1, Len(tail))

IsDigit(ch) == \E d \in 1..10 : DigitChars[d] = ch

\* int(text) for texts over digits, signs and letters: an optional sign and
\* one digit or more give a value, anything else ValueError (the blanks and
\* underscores that int() also accepts are not characters of the model)
ParseInt(text) ==
    LET negative == Len(text) > 0 /\ text[1] = "-"
        signed == Len(text) > 0 /\ text[1] \in {"-", "+"}
        digits == IF signed THEN Tail(text) ELSE text
    IN  IF Len(digits) > 0 /\ \A k \in 1..Len(digits) : IsDigit(digits[k])
        THEN [raised |-> "none",
              value |-> IF negative THEN 0 - FromDigits(digits) ELSE FromDigits(digits)]
        ELSE [raised |-> "ValueError", value |-> 0]

\* a test that misses the lower bound
InLedgerNoLowerBound(index, size) == index < size

\* 0 <= index < len(self.answer_details)
InLedger(index, size) == 0 <= index /\ index < size

\* self.answer_details[index] of a Python list: a negative index counts from
\* the end, an index outside the list raises IndexError
Subscript(details, index) ==
    LET size == Cardinality(DOMAIN details)
        at == IF index < 0 THEN size + index ELSE index
    IN  IF at \in DOMAIN details
        THEN [raised |-> "none", item |-> details[at]]
        ELSE [raised |-> "IndexError", item |-> None]

\* except (ValueError, IndexError): pass
Caught == {"ValueError", "IndexError"}

\* lines 378-386: the analysis a handle resolves to; NullValue when absent
ResolveAnalysis(handle, details) ==
    IF ~HasDetailPrefix(handle) THEN [raised |-> "none", analysis |-> NullValue]
    ELSE LET index == ParseInt(LastSegment(handle.tail))
         IN  IF index.raised # "none" THEN [raised |-> index.raised, analysis |-> NullValue]
             ELSE IF ~InLedger(index.value, Cardinality(DOMAIN details))
                  THEN [raised |-> "none", analysis |-> NullValue]
             ELSE LET slot == Subscript(details, index.value)
                  IN  IF slot.raised # "none"
                      THEN [raised |-> slot.raised, analysis |-> NullValue]
                      ELSE IF slot.item = None
                      THEN [raised |-> "none", analysis |-> NullValue]
                      ELSE IF "step_by_step_analysis" \in DOMAIN slot.item
                      THEN [raised |-> "none",
                            analysis |-> slot.item.step_by_step_analysis]
                      ELSE [raised |-> "none", analysis |-> NullValue]

\* a value that keeps the value of an error result
ExportValueRaw(q) == ValueOf(q)

\* value = "N/A" if "error" in q else (q.get("value") if "value" in q else q.get("answer"))
ExportValue(q) == IF HasError(q) THEN NotAvailable ELSE ValueOf(q)

\* a conversion that keeps the page number
ConvertReferenceKeep(ref) == [pdf_sha1 |-> ref.pdf_sha1, page_index |-> ref.page_index]

\* {"pdf_sha1": ref["pdf_sha1"], "page_index": ref["page_index"] - 1}
ConvertReference(ref) == [pdf_sha1 |-> ref.pdf_sha1, page_index |-> ref.page_index - 1]

\* lines 388-399
ExportReferences(q) ==
    IF ExportValue(q) = NotAvailable THEN <<>>
    ELSE [k \in 1..Len(ReferencesOf(q)) |-> ConvertReference(ReferencesOf(q)[k])]

\* q.get("kind") or q.get("schema")
KindOf(q) == IF "kind" \in DOMAIN q THEN q.kind ELSE q.schema

\* lines 401-411: the exported answer; reasoning_process only for an
\* analysis that is there
SubmissionAnswer(q, details) ==
    LET found == ResolveAnalysis(HandleOf(q), details)
        answer == [question_text |-> TextOf(q), kind |-> KindOf(q),
                   value |-> ExportValue(q), references |-> ExportReferences(q)]
    IN  IF found.raised \in Caught \/ found.analysis = NullValue
        THEN answer
        ELSE [f \in DOMAIN answer \cup {"reasoning_process"} |->
                 IF f = "reasoning_process" THEN found.analysis ELSE answer[f]]

\* an exception of the lookup that the except clause does not name leaves
\* the function
ExportRaises(pq, details) ==
    \E k \in 1..Len(pq) :
        ResolveAnalysis(HandleOf(pq[k]), details).raised \notin Caught \cup {"none"}

_post_process_submission_answers(pq, details) ==
    [k \in 1..Len(pq) |-> SubmissionAnswer(pq[k], details)]

(***************************************************************************)
(* SpecX: the export applied to bounded results and ledgers.               *)
(***************************************************************************)
TailChars == {"0", "1", "7", "-", "+", "x", "/"}

Handles ==
    [prefix : {"", DetailPrefix, "#/details/"}, tail : SeqsUpTo(TailChars, MaxTail)]

\* the records a ledger slot may hold: nothing, an error detail, the detail
\* of an answer, the detail of an answer that held an 'error' key
DetailChoices ==
    {None,
     [error_traceback |-> "traceback", self |-> DetailRef(0)],
     [step_by_step_analysis |-> "analysis", reasoning_summary |-> "summary",
      relevant_pages |-> List(<<1>>), response_data |-> None, self |-> DetailRef(0)],
     [step_by_step_analysis |-> NullValue, reasoning_summary |-> NullValue,
      relevant_pages |-> NoList, response_data |-> None, self |-> DetailRef(0)]}

Ledgers == UNION {[0..(n - 1) -> DetailChoices] : n \in 0..MaxLedger}

ExportRefLists ==
    {NoList} \cup
    {List(l) : l \in SeqsUpTo([pdf_sha1 : {"sha_a"}, page_index : Pages], MaxRefs)}

WithField(r, name, val) ==
    [f \in DOMAIN r \cup {name} |-> IF f = name THEN val ELSE r[f]]

\* a processed result of either shape; references and handle are optional
MakeResult(new, value, has_error, refs, handle) ==
    LET base == IF new
                THEN [question_text |-> 0, kind |-> "boolean", value |-> value]
                ELSE [question |-> 0, schema |-> "boolean", answer |-> value]
        r1 == IF refs.is_none THEN base ELSE WithField(base, "references", refs.items)
        r2 == IF has_error THEN WithField(r1, "error", "Exception: failed") ELSE r1
    IN  IF handle = None THEN r2 ELSE WithField(r2, "answer_details", [ref |-> handle])

OneAnswerLedger == [i \in {0} |-> AnswerDetail(0, [outcome |-> "ok", relevant_pages |-> <<1>>], None)]

\* results of every value, shape and reference list, with a handle to a record
ReferenceCases ==
    {[processed_questions |-> <<MakeResult(new, value, has_error, refs, DetailRef(0))>>,
      answer_details |-> OneAnswerLedger] :
        new \in BOOLEAN, value \in {"42", NotAvailable, NullValue},
        has_error \in BOOLEAN, refs \in ExportRefLists}

\* an answered result with every handle, against every ledger
HandleCases ==
    {[processed_questions |->
          <<MakeResult(TRUE, "42", FALSE, List(<<[pdf_sha1 |-> "sha_a", page_index |-> 1]>>), h)>>,
      answer_details |-> l] :
        h \in Handles \cup {None}, l \in Ledgers}

\* an error result that holds references, followed by an answered one
TwoResultsCase ==
    [processed_questions |->
        <<MakeResult(TRUE, "42", TRUE,
                     List(<<[pdf_sha1 |-> "sha_a", page_index |-> 2]>>), DetailRef(0)),
          MakeResult(FALSE, "42", FALSE, NoList, DetailRef(1))>>,
     answer_details |-> [i \in {0, 1} |-> IF i = 0 THEN [error_traceback |-> "traceback", self |-> DetailRef(0)] ELSE None]]

ExportInputs == ReferenceCases \cup HandleCases \cup {TwoResultsCase}

InitX ==
    /\ PipelineIdle
    /\ vin \in ExportInputs
    /\ vout = None

\* a call of _post_process_submission_answers with the results of vin and
\* the ledger of vin as self.answer_details
ExportCall ==
    /\ vout = None
    /\ vout' = [kind |-> "submission",
                raised |-> ExportRaises(vin.processed_questions, vin.answer_details),
                answers |-> _post_process_submission_answers(
                                vin.processed_questions, vin.answer_details)]
    /\ UNCHANGED <<vin, pvars>>

NextX == ExportCall

SpecX == InitX /\ [][NextX]_vars

(***************************************************************************)
(* Properties of the export (checked under SpecX).                         *)
(***************************************************************************)
Exported == vout # None /\ vout.kind = "submission"

XResults == vin.processed_questions
XLedger == vin.answer_details
XSize == Cardinality(DOMAIN vin.answer_details)

\* C14: a result that is neither an error nor N/A is exported with as many
\* references, in the same order, each with the same pdf_sha1 and with
\* page_index one less than the 1-based page, and no exported page_index is
\* negative.
C14_ZeroBasedPages ==
    Exported =>
        \A k \in 1..Len(XResults) :
            LET q == XResults[k]
                a == vout.answers[k]
            IN  (~HasError(q) /\ ValueOf(q) # NotAvailable) =>
                    /\ Len(a.references) = Len(ReferencesOf(q))
                    /\ \A j \in 1..Len(a.references) :
                          /\ a.references[j].pdf_sha1 = ReferencesOf(q)[j].pdf_sha1
                          /\ a.references[j].page_index = ReferencesOf(q)[j].page_index - 1
                          /\ a.references[j].page_index >= 0

\* two references were exported, the first of page 1 as page 0
C14_Witness ==
    /\ Exported
    /\ Len(XResults) = 1
    /\ ~HasError(XResults[1])
    /\ Len(ReferencesOf(XResults[1])) = 2
    /\ ReferencesOf(XResults[1])[1].page_index = 1
    /\ ReferencesOf(XResults[1])[2].page_index = 3
    /\ Len(vout.answers[1].references) = 2
    /\ vout.answers[1].references[1].page_index = 0

\* C15: a result that carries an error is exported with value 'N/A', and
\* every exported answer whose value is 'N/A' has no references, whatever
\* the result held.
C15_NotAvailableHasNoReferences ==
    Exported =>
        \A k \in 1..Len(XResults) :
            /\ HasError(XResults[k]) => vout.answers[k].value = NotAvailable
            /\ vout.answers[k].value = NotAvailable => vout.answers[k].references = <<>>

\* an error result holding an answer and references was exported as N/A
\* with none, and so was a well-formed N/A answer holding references
C15_Witness ==
    /\ Exported
    /\ Len(XResults) = 1
    /\ Len(ReferencesOf(XResults[1])) > 0
    /\ \/ HasError(XResults[1]) /\ ValueOf(XResults[1]) = "42"
       \/ ~HasError(XResults[1]) /\ ValueOf(XResults[1]) = NotAvailable
    /\ vout.answers[1].value = NotAvailable
    /\ vout.answers[1].references = <<>>

\* the text of an index: digits, or a sign and digits
Numeric(seg) ==
    \/ Len(seg) > 0 /\ \A k \in 1..Len(seg) : IsDigit(seg[k])
    \/ Len(seg) > 1 /\ seg[1] \in {"-", "+"} /\ \A k \in 2..Len(seg) : IsDigit(seg[k])

IndexOf(seg) ==
    CASE seg[1] = "-" -> 0 - FromDigits(Tail(seg))
      [] seg[1] = "+" -> FromDigits(Tail(seg))
      [] OTHER -> FromDigits(seg)

\* the handle is one of those the export has to tolerate
Malformed(handle, ledger) ==
    LET seg == LastSegment(handle.tail)
        size == Cardinality(DOMAIN ledger)
    IN  \/ handle = EmptyHandle
        \/ handle.prefix # DetailPrefix
        \/ ~Numeric(seg)
        \/ Numeric(seg) /\ IndexOf(seg) < 0
        \/ Numeric(seg) /\ IndexOf(seg) >= size
        \/ Numeric(seg) /\ IndexOf(seg) \in DOMAIN ledger /\ ledger[IndexOf(seg)] = None

\* C16: resolving a handle during the export never raises, and a handle that
\* is empty, lacks the prefix, has a non-numeric, negative or too large
\* index, or points to an empty slot gives an answer without
\* reasoning_process.
C16_MalformedHandleIsAbsent ==
    Exported =>
        /\ ~vout.raised
        /\ Len(vout.answers) = Len(XResults)
        /\ \A k \in 1..Len(XResults) :
              Malformed(HandleOf(XResults[k]), XLedger) =>
                  "reasoning_process" \notin DOMAIN vout.answers[k]

\* a handle with index -1 against a ledger whose last slot holds an analysis
C16_Witness ==
    /\ Exported
    /\ Len(XResults) = 1
    /\ HandleOf(XResults[1]) = [prefix |-> DetailPrefix, tail |-> <<"-", "1">>]
    /\ XSize = 2
    /\ XLedger[1] # None
    /\ "step_by_step_analysis" \in DOMAIN XLedger[1]
    /\ XLedger[1].step_by_step_analysis = "analysis"
    /\ "reasoning_process" \notin DOMAIN vout.answers[1]

\* a handle with the index of a slot that holds an analysis is resolved
C16_Resolved ==
    /\ Exported
    /\ Len(XResults) = 1
    /\ ~Malformed(HandleOf(XResults[1]), XLedger)
    /\ "reasoning_process" \in DOMAIN vout.answers[1]
    /\ vout.answers[1].reasoning_process = "analysis"

(***************************************************************************)
(* SpecF: a run of results flushed batch after batch, with the references  *)
(* of the results held in memory followed from flush to flush.             *)
(***************************************************************************)
MaxFlushed == 3

\* a conversion that writes the 0-based pages back into the result
ResultAfterExportInPlace(q) ==
    IF "references" \in DOMAIN q /\ ExportValue(q) # NotAvailable
    THEN WithField(q, "references", ExportReferences(q))
    ELSE q

\* lines 371-411: q is only read; the converted references are new dicts in
\* a new list bound to the local name
ResultAfterExport(q) == q

\* lines 378-386: self.answer_details is only read
LedgerAfterExport(details) == details

FlushedRefLists ==
    {NoList,
     List(<<[pdf_sha1 |-> "sha_a", page_index |-> 1]>>),
     List(<<[pdf_sha1 |-> "sha_a", page_index |-> 2],
            [pdf_sha1 |-> "sha_b", page_index |-> MaxPage]>>)}

\* the results question i may end with: answered, N/A, or an error
FlushedResults(i) ==
    {MakeResult(TRUE, c.value, c.has_error, refs, DetailRef(i)) :
        c \in {[value |-> "42", has_error |-> FALSE],
               [value |-> NotAvailable, has_error |-> FALSE],
               [value |-> "42", has_error |-> TRUE]},
        refs \in FlushedRefLists}

\* the detail stored for the result of question i
FlushedDetail(i, q) ==
    IF HasError(q) THEN ErrorDetail(i)
    ELSE AnswerDetail(i, [outcome |-> "ok", relevant_pages |-> <<1>>], None)

\* the result lists of n questions, question by question
RECURSIVE FlushedLists(_)
FlushedLists(n) ==
    IF n = 0 THEN {<<>>}
    ELSE {Append(r, q) : r \in FlushedLists(n - 1), q \in FlushedResults(n - 1)}

FlushRuns ==
    UNION {{[results |-> r, parallel_requests |-> p, submission_file |-> sf] :
               r \in FlushedLists(n), p \in 1..MaxParallel, sf \in BOOLEAN} :
           n \in 0..MaxFlushed}

InitF ==
    /\ PipelineIdle
    /\ vin \in FlushRuns
    /\ vout = [kind |-> "run",
               processed_questions |-> <<>>,
               answer_details |-> [i \in 0..(Len(vin.results) - 1) |-> None],
               flushes |-> <<>>,
               returned |-> None]

\* lines 242-246 and 249-257: the results of the next batch are appended
\* and _save_progress writes the submission when submission mode is on
FlushStep ==
    /\ vout.returned = None
    /\ Len(vout.processed_questions) < Len(vin.results)
    /\ LET done == Len(vout.processed_questions)
           upto == Min2(done + vin.parallel_requests, Len(vin.results))
           pq == vout.processed_questions
                    \o [k \in 1..(upto - done) |-> vin.results[done + k]]
           details == [i \in DOMAIN vout.answer_details |->
                          IF done <= i /\ i < upto
                          THEN FlushedDetail(i, vin.results[i + 1])
                          ELSE vout.answer_details[i]]
       IN  vout' =
             IF vin.submission_file
             THEN [vout EXCEPT
                     !.processed_questions = [k \in 1..Len(pq) |-> ResultAfterExport(pq[k])],
                     !.answer_details = LedgerAfterExport(details),
                     !.flushes = Append(@, _post_process_submission_answers(pq, details))]
             ELSE [vout EXCEPT !.processed_questions = pq,
                               !.answer_details = details]
    /\ UNCHANGED <<vin, pvars>>

\* lines 260-266: the statistics are printed and the results are returned
ReturnStep ==
    /\ vout.returned = None
    /\ Len(vout.processed_questions) = Len(vin.results)
    /\ vout' = [vout EXCEPT !.returned =
                   IF PrintStatsRaises(vout.processed_questions)
                   THEN [raised |-> "ZeroDivisionError"]
                   ELSE [questions |-> vout.processed_questions,
                         answer_details |-> vout.answer_details]]
    /\ UNCHANGED <<vin, pvars>>

NextF ==
    \/ FlushStep
    \/ ReturnStep

SpecF == InitF /\ [][NextF]_vars

(***************************************************************************)
(* Properties of repeated flushes (checked under SpecF).                   *)
(***************************************************************************)
FlushedSoFar == Len(vout.processed_questions)

\* the references answer a holds for the result q as the worker returned it
ExportedOnce(a, q) ==
    /\ Len(a.references) = Len(ReferencesOf(q))
    /\ \A r \in 1..Len(a.references) :
          /\ a.references[r].pdf_sha1 = ReferencesOf(q)[r].pdf_sha1
          /\ a.references[r].page_index = ReferencesOf(q)[r].page_index - 1

\* C22: after any number of flushes with submission mode on, the results
\* held in memory (and returned at the end) and the ledger are as the
\* workers left them, and every flush exports each reference of a result
\* that is not N/A with page_index one less than its 1-based page.
C22_ExportLeavesResultsUnchanged ==
    /\ \A k \in 1..FlushedSoFar : vout.processed_questions[k] = vin.results[k]
    /\ \A i \in DOMAIN vout.answer_details :
          vout.answer_details[i] =
              IF i < FlushedSoFar THEN FlushedDetail(i, vin.results[i + 1]) ELSE None
    /\ \A f \in 1..Len(vout.flushes) :
          \A k \in 1..Len(vout.flushes[f]) :
              vout.flushes[f][k].value # NotAvailable =>
                  ExportedOnce(vout.flushes[f][k], vin.results[k])
    /\ (vout.returned # None /\ "questions" \in DOMAIN vout.returned) =>
          /\ vout.returned.questions = vin.results
          /\ vout.returned.answer_details = vout.answer_details

\* a result with two references exported by three flushes and then returned
C22_Witness ==
    /\ vin.submission_file
    /\ Len(vout.flushes) >= 3
    /\ Len(vout.flushes[1]) = 1
    /\ Len(vout.flushes[1][1].references) = 2
    /\ Len(vout.flushes[3][1].references) = 2
    /\ vout.returned # None
    /\ "questions" \in DOMAIN vout.returned

====
